---- MODULE Spec2Model ----
(***************************************************************************)
(* Design Tutor backend (src/main.py): the keyword detector                *)
(* _detect_design, the step builder _build_steps and the HTTP handlers     *)
(* that use them and the document store.                                   *)
(*                                                                         *)
(* Python str values are TLA+ strings; Len, SubSeq, Head, Tail and \o act  *)
(* on them character by character.  Python None is the empty tuple and a   *)
(* present optional value x is the one-element tuple <<x>>.  A Python dict *)
(* (insertion ordered) is a sequence of <<key, value>> pairs.              *)
(***************************************************************************)
EXTENDS Integers, Sequences, FiniteSets, TLC

VARIABLES
    pc,          \* which call has been made: "input", "detected", "built", "serving"
    name,        \* argument of _detect_design
    tool,        \* argument of _build_steps
    detected,    \* result of _detect_design
    steps,       \* result of _build_steps
    db,          \* TRUE when the store handle was initialised at process start
    store,       \* the documents of the store, in insertion order
    lastOp,      \* the handler that served the last request
    req,         \* the last request
    resp,        \* the last response
    wrote        \* whether the last request's store write succeeded

vars == <<pc, name, tool, detected, steps, db, store, lastOp, req, resp, wrote>>

None == <<>>
Some(x) == <<x>>

(***************************************************************************)
(* Bounds of the model.                                                    *)
(***************************************************************************)
MaxWords == 2
MaxDocs == 2

(***************************************************************************)
(* str.lower() and the `in` operator on strings.                           *)
(***************************************************************************)
UpperAlpha == "ABCDEFGHIJKLMNOPQRSTUVWXYZ"
LowerAlpha == "abcdefghijklmnopqrstuvwxyz"

\* The lower-case letter of each capital.
LowerOf ==
    [c \in {SubSeq(UpperAlpha, i, i) : i \in 1..Len(UpperAlpha)} |->
        LET i == CHOOSE j \in 1..Len(UpperAlpha) : SubSeq(UpperAlpha, j, j) = c
        IN  SubSeq(LowerAlpha, i, i)]

LowerChar(c) == IF c \in DOMAIN LowerOf THEN LowerOf[c] ELSE c

RECURSIVE Lower(_)
Lower(s) == IF s = "" THEN "" ELSE LowerChar(Head(s)) \o Lower(Tail(s))

\* k in s
Contains(s, k) ==
    \E i \in 1..(Len(s) - Len(k) + 1) : SubSeq(s, i, i + Len(k) - 1) = k

\* any(k in s for k in ks)
AnyIn(s, ks) == \E i \in 1..Len(ks) : Contains(s, ks[i])

(***************************************************************************)
(* _detect_design                                                          *)
(***************************************************************************)
StoryKeys == <<"story", "reel", "vertical", "instagram story">>
SquareKeys == <<"square", "instagram", "post">>
A4Keys == <<"a4", "flyer", "print">>
PaletteKeys == <<"tech", "futur", "robot">>

PaletteA == <<"#0B0F1A", "#FF7A00", "#FFFFFF">>
PaletteB == <<"#111827", "#E5E7EB", "#FF4D4D">>
FontsA == <<"Inter", "Manrope">>
FontsB == <<"Poppins", "Montserrat">>

\* Mutant: the square rule tried before the story rule.
DetectLayout_SquareFirst(name_l) ==
    IF AnyIn(name_l, SquareKeys) THEN "square"
    ELSE IF AnyIn(name_l, StoryKeys) THEN "story"
    ELSE IF AnyIn(name_l, A4Keys) THEN "a4"
    ELSE "poster"

\* Mutant: the word "poster" recognised as the poster layout before the
\* substring rules.
DetectLayout_PosterWord(name_l) ==
    IF Contains(name_l, "poster") THEN "poster"
    ELSE IF AnyIn(name_l, StoryKeys) THEN "story"
    ELSE IF AnyIn(name_l, SquareKeys) THEN "square"
    ELSE IF AnyIn(name_l, A4Keys) THEN "a4"
    ELSE "poster"

DetectLayout(name_l) ==
    IF AnyIn(name_l, StoryKeys) THEN "story"
    ELSE IF AnyIn(name_l, SquareKeys) THEN "square"
    ELSE IF AnyIn(name_l, A4Keys) THEN "a4"
    ELSE "poster"

\* Mutant: the two palettes exchanged.
DetectPalette_Swapped(name_l) ==
    IF AnyIn(name_l, PaletteKeys) THEN PaletteB ELSE PaletteA

DetectPalette(name_l) ==
    IF AnyIn(name_l, PaletteKeys) THEN PaletteA ELSE PaletteB

DetectFonts(name_l) ==
    IF Contains(name_l, "modern") \/ Contains(name_l, "tech") THEN FontsA ELSE FontsB

\* Mutant: the image position test inverted.
DetectStructure_Inverted(name_l, layout) ==
    << [type |-> "background",
        style |-> IF Contains(name_l, "grad") THEN "gradient" ELSE "solid"],
       [type |-> "image",
        position |-> IF layout = "story" THEN "center" ELSE "top"],
       [type |-> "headline", weight |-> "700", case |-> "upper"],
       [type |-> "subhead", weight |-> "500"],
       [type |-> "cta", variant |-> "pill"] >>

DetectStructure(name_l, layout) ==
    << [type |-> "background",
        style |-> IF Contains(name_l, "grad") THEN "gradient" ELSE "solid"],
       [type |-> "image",
        position |-> IF layout # "story" THEN "center" ELSE "top"],
       [type |-> "headline", weight |-> "700", case |-> "upper"],
       [type |-> "subhead", weight |-> "500"],
       [type |-> "cta", variant |-> "pill"] >>

_detect_design(n) ==
    LET name_l == Lower(n)
        layout == DetectLayout(name_l)
    IN  [layout |-> layout,
         palette |-> DetectPalette(name_l),
         fonts |-> DetectFonts(name_l),
         structure |-> DetectStructure(name_l, layout)]

(***************************************************************************)
(* _build_steps                                                            *)
(***************************************************************************)
\* size_map.get(layout, (1080, 1350))
size_map(layout) ==
    CASE layout = "story" -> <<1080, 1920>>
      [] layout = "square" -> <<1080, 1080>>
      [] layout = "poster" -> <<1080, 1350>>
      [] layout = "a4" -> <<2480, 3508>>
      [] OTHER -> <<1080, 1350>>

Common(d) ==
    LET w == size_map(d.layout)[1]
        h == size_map(d.layout)[2]
    IN  << "Create a new document sized " \o ToString(w) \o "x" \o ToString(h) \o " px.",
           "Set background to "
               \o (IF d.structure[1].style = "gradient"
                   THEN "a subtle radial gradient" ELSE d.palette[1])
               \o ".",
           "Place the main image "
               \o (IF d.structure[2].position = "center"
                   THEN "centered" ELSE "near the top")
               \o " and size it proportionally.",
           "Add a bold headline using " \o d.fonts[1] \o " and align left.",
           "Add supporting text with " \o d.fonts[Len(d.fonts)]
               \o " and reduce tracking slightly.",
           "Create a call-to-action button using " \o d.palette[2] \o " and white text.",
           "Export as high-quality PNG (and save the source file as a reusable template)." >>

\* Mutant: the tool matched whatever its letter case.
Prefix_IgnoreCase(t, d) ==
    LET w == size_map(d.layout)[1]
        h == size_map(d.layout)[2]
    IN  IF Lower(t) = "photoshop"
        THEN << "Open Photoshop.",
                "File > New.",
                "Use Shape layers and Smart Objects for non-destructive editing." >>
        ELSE IF Lower(t) = "illustrator"
        THEN << "Open Illustrator.",
                "File > New (RGB).",
                "Use rectangles and Type tool; keep elements on separate layers." >>
        ELSE << "Open Canva.",
                "Create a custom size " \o ToString(w) \o "x" \o ToString(h) \o ".",
                "Add a gradient or color rectangle as background." >>

Prefix(t, d) ==
    LET w == size_map(d.layout)[1]
        h == size_map(d.layout)[2]
    IN  IF t = "photoshop"
        THEN << "Open Photoshop.",
                "File > New.",
                "Use Shape layers and Smart Objects for non-destructive editing." >>
        ELSE IF t = "illustrator"
        THEN << "Open Illustrator.",
                "File > New (RGB).",
                "Use rectangles and Type tool; keep elements on separate layers." >>
        ELSE << "Open Canva.",
                "Create a custom size " \o ToString(w) \o "x" \o ToString(h) \o ".",
                "Add a gradient or color rectangle as background." >>

Suffix(t) ==
    IF t = "photoshop"
    THEN << "Group layers (BG, Image, Text, CTA).",
            "Save as PSD and export PNG." >>
    ELSE IF t = "illustrator"
    THEN << "Convert shapes to symbols for reusability.",
            "Save as AI and export PNG." >>
    ELSE << "Use Position > Tidy up to align elements.",
            "Download PNG and save the design as a template." >>

\* Mutant: the suffix concatenated before the common block.
_build_steps_SuffixFirst(t, d) == Prefix(t, d) \o Suffix(t) \o Common(d)

_build_steps(t, d) == Prefix(t, d) \o Common(d) \o Suffix(t)

(***************************************************************************)
(* Inputs of the two functions.                                            *)
(***************************************************************************)
UpperOf ==
    [c \in {SubSeq(LowerAlpha, i, i) : i \in 1..Len(LowerAlpha)} |->
        LET i == CHOOSE j \in 1..Len(LowerAlpha) : SubSeq(LowerAlpha, j, j) = c
        IN  SubSeq(UpperAlpha, i, i)]

UpperChar(c) == IF c \in DOMAIN UpperOf THEN UpperOf[c] ELSE c

RECURSIVE Upper(_)
Upper(s) == IF s = "" THEN "" ELSE UpperChar(Head(s)) \o Upper(Tail(s))

Capitalize(s) == IF s = "" THEN "" ELSE UpperChar(Head(s)) \o Tail(s)

\* Fragments the names are made of: every keyword of the detector can be
\* spelled out of them ("instagram story" with the blank, "poster" as
\* "post" and "er"), and some spell no keyword.
Vocabulary ==
    { "story", "reel", "vertical", "instagram", " ", "square", "post", "er",
      "a4", "flyer", "print", "tech", "futur", "robot", "modern", "grad", "sale" }

RECURSIVE Phrases(_)
Phrases(n) ==
    IF n = 0 THEN {""}
    ELSE LET p == Phrases(n - 1) IN p \cup {a \o w : a \in p, w \in Vocabulary}

\* Names with keywords of three and more families at once, in mixed case.
ExampleNames ==
    { "Modern Tech Poster", "Tech Robot Square Post",
      "Instagram POST A4 flyer REEL", "Vertical print square gradient",
      "FUTURistic Story (A4, Printed)", "Summer Sale", "a 4", "Repost: flyers" }

\* Names of at most MaxWords fragments, as written, in capitals, and with a
\* leading capital, and the example names.
Names ==
    LET p == Phrases(MaxWords)
    IN  p \cup {Upper(a) : a \in p} \cup {Capitalize(a) : a \in p} \cup ExampleNames

Tools ==
    { "photoshop", "illustrator", "canva", "Photoshop", "ILLUSTRATOR", "Canva",
      "", "gimp", "photoshop " }

NoSpec == None
NoSteps == <<>>

(***************************************************************************)
(* The detector called on a name.                                          *)
(***************************************************************************)
IdleService ==
    /\ db = FALSE
    /\ store = <<>>
    /\ lastOp = "none"
    /\ req = None
    /\ resp = None
    /\ wrote = FALSE

DetectInit ==
    /\ pc = "input"
    /\ name \in Names
    /\ tool = ""
    /\ detected = NoSpec
    /\ steps = NoSteps
    /\ IdleService

Detect ==
    /\ pc = "input"
    /\ detected' = _detect_design(name)
    /\ pc' = "detected"
    /\ UNCHANGED <<name, tool, steps, db, store, lastOp, req, resp, wrote>>

DetectNext == Detect

DetectSpec == DetectInit /\ [][DetectNext]_vars

(***************************************************************************)
(* The step builder called on a spec the detector produces.                *)
(***************************************************************************)
\* Names that spell every combination of layout, palette, fonts and
\* background the detector tells apart.
LayoutWords == {"", "story", "reel", "square", "poster", "a4", "print"}
StyleWords == {"", "tech", "futur", "robot", "modern"}
BackgroundWords == {"", "grad"}

SpecNames ==
    {a \o " " \o b \o " " \o c :
        a \in LayoutWords, b \in StyleWords, c \in BackgroundWords}

DetectedSpecs == {_detect_design(n) : n \in SpecNames}

StepsInit ==
    /\ pc = "detected"
    /\ name = ""
    /\ tool = ""
    /\ detected \in DetectedSpecs
    /\ steps = NoSteps
    /\ IdleService

Build ==
    /\ pc = "detected"
    /\ \E t \in Tools :
          /\ tool' = t
          /\ steps' = _build_steps(t, detected)
    /\ pc' = "built"
    /\ UNCHANGED <<name, detected, db, store, lastOp, req, resp, wrote>>

StepsNext == Build

StepsSpec == StepsInit /\ [][StepsNext]_vars

(***************************************************************************)
(* The document store (database.py): create_document and get_documents.    *)
(***************************************************************************)
\* The identifier the store assigns to its next document.
NewId(st) == "doc" \o ToString(Len(st) + 1)

\* create_document(kind, payload) that succeeds: the store afterwards.
Insert(st, kind, payload) ==
    Append(st, [kind |-> kind, _id |-> NewId(st), data |-> payload])

RECURSIVE OfKind(_, _)
OfKind(st, kind) ==
    IF st = <<>> THEN <<>>
    ELSE IF Head(st).kind = kind
         THEN <<[_id |-> Head(st)._id, data |-> Head(st).data]>> \o OfKind(Tail(st), kind)
         ELSE OfKind(Tail(st), kind)

\* get_documents(kind, {}, limit): at most limit documents of the kind, each
\* with its store-assigned identifier.
get_documents(st, kind, limit) ==
    LET all == OfKind(st, kind)
    IN  SubSeq(all, 1, IF Len(all) < limit THEN Len(all) ELSE limit)

(***************************************************************************)
(* Requests.                                                               *)
(***************************************************************************)
\* GuideRequest.tools when the request gives none
DefaultTools == <<"photoshop", "canva", "illustrator">>

ImageUrl == Some("https://example.com/design.png")

\* POST /api/guides bodies: tools left out, the empty list, repeated names,
\* names in other letter cases, unknown names, the empty name and a name
\* with a trailing blank.
GuideRequests ==
    { [source_name |-> "Tech Robot Square Post", image_url |-> None,
       tools |-> DefaultTools],
      [source_name |-> "Tech Robot Square Post", image_url |-> ImageUrl,
       tools |-> <<"canva">>],
      [source_name |-> "Vertical gradient poster", image_url |-> None,
       tools |-> <<"Photoshop", "photoshop">>],
      [source_name |-> "", image_url |-> ImageUrl,
       tools |-> <<"canva", "gimp", "canva">>],
      [source_name |-> "Modern A4 flyer", image_url |-> None,
       tools |-> <<>>],
      [source_name |-> "Summer Sale", image_url |-> ImageUrl,
       tools |-> <<"ILLUSTRATOR", "canva", "illustrator", "">>],
      [source_name |-> "Story Reel", image_url |-> None,
       tools |-> <<"Illustrator", "photoshop ">>] }

\* Template payloads, the second with the schema's defaults.
TemplatePayloads ==
    { [name |-> "Promo", description |-> Some("Launch promo"), width |-> 1080,
       height |-> 1080, background |-> "#111827",
       palette |-> <<"#FF7A00", "#111827", "#F3F4F6">>,
       fonts |-> <<"Inter", "Manrope">>, elements |-> <<>>],
      [name |-> "Blank", description |-> None, width |-> 1080,
       height |-> 1350, background |-> "#0b0f1a",
       palette |-> <<"#FF7A00", "#111827", "#F3F4F6">>,
       fonts |-> <<"Inter", "Manrope">>, elements |-> <<>>] }

\* list_templates(limit: int = 20)
DefaultLimit == 20

Limits == {1, 2, DefaultLimit}

(***************************************************************************)
(* The handlers.  A handler calls the store at most once and shares        *)
(* nothing else with other requests, so each is one step.                  *)
(***************************************************************************)
Ok(body) == [status |-> 200, body |-> body]

\* HTTPException(status_code=500, detail=str(e))
Http500(detail) == [status |-> 500, detail |-> detail]

Pure == UNCHANGED <<pc, name, tool, detected, steps, db>>

Init ==
    /\ pc = "serving"
    /\ name = ""
    /\ tool = ""
    /\ detected = NoSpec
    /\ steps = NoSteps
    /\ db \in BOOLEAN
    /\ store = <<>>
    /\ lastOp = "none"
    /\ req = None
    /\ resp = None
    /\ wrote = FALSE

\* A store write can succeed only with a store handle; the model stops
\* adding documents at MaxDocs.
CanWrite(ok) == ok => (db /\ Len(store) < MaxDocs)

read_root ==
    /\ pc = "serving"
    /\ lastOp' = "read_root"
    /\ req' = None
    /\ resp' = Ok([message |-> "Design Tutor Backend Running"])
    /\ wrote' = FALSE
    /\ UNCHANGED store
    /\ Pure

hello ==
    /\ pc = "serving"
    /\ lastOp' = "hello"
    /\ req' = None
    /\ resp' = Ok([message |-> "Hello from the backend API!"])
    /\ wrote' = FALSE
    /\ UNCHANGED store
    /\ Pure

\* db.list_collection_names()[:10]
Collections(st) ==
    LET kinds == {st[i].kind : i \in 1..Len(st)}
    IN  (IF "template" \in kinds THEN <<"template">> ELSE <<>>)
            \o (IF "guide" \in kinds THEN <<"guide">> ELSE <<>>)

\* GET /test; the status marks that lead the strings are left out.
test_database ==
    /\ pc = "serving"
    /\ \E listed \in BOOLEAN, url \in BOOLEAN, dbname \in BOOLEAN :
          resp' = Ok([backend |-> "Running",
                      database |->
                          IF ~db THEN "Available but not initialized"
                          ELSE IF listed THEN "Connected & Working"
                          ELSE "Connected but Error",
                      database_url |-> IF url THEN "Set" ELSE "Not Set",
                      database_name |-> IF dbname THEN "Set" ELSE "Not Set",
                      connection_status |-> IF db THEN "Connected" ELSE "Not Connected",
                      collections |-> IF db /\ listed THEN Collections(store) ELSE <<>>])
    /\ lastOp' = "test_database"
    /\ req' = None
    /\ wrote' = FALSE
    /\ UNCHANGED store
    /\ Pure

create_template ==
    /\ pc = "serving"
    /\ \E payload \in TemplatePayloads, ok \in BOOLEAN :
          /\ CanWrite(ok)
          /\ req' = payload
          /\ wrote' = ok
          /\ IF ok
             THEN /\ store' = Insert(store, "template", payload)
                  /\ resp' = Ok([id |-> NewId(store), status |-> "created"])
             ELSE /\ store' = store
                  /\ resp' = Http500("create_document failed")
    /\ lastOp' = "create_template"
    /\ Pure

\* d["id"] = str(d.pop("_id", ""))
WithId(d) == [id |-> d._id, data |-> d.data]

\* Mutant: the "_id" popped from the stored documents themselves.
list_templates_Popping ==
    /\ pc = "serving"
    /\ \E limit \in Limits, ok \in BOOLEAN :
          /\ ok => db
          /\ req' = [limit |-> limit]
          /\ IF ok
             THEN /\ resp' = Ok([items |->
                         LET docs == get_documents(store, "template", limit)
                         IN  [i \in 1..Len(docs) |-> WithId(docs[i])]])
                  /\ store' = [i \in 1..Len(store) |->
                                  IF store[i].kind = "template"
                                  THEN [store[i] EXCEPT !._id = ""]
                                  ELSE store[i]]
             ELSE /\ resp' = Http500("get_documents failed")
                  /\ store' = store
    /\ lastOp' = "list_templates"
    /\ wrote' = FALSE
    /\ Pure

list_templates ==
    /\ pc = "serving"
    /\ \E limit \in Limits, ok \in BOOLEAN :
          /\ ok => db
          /\ req' = [limit |-> limit]
          /\ resp' = IF ok
                     THEN Ok([items |->
                              LET docs == get_documents(store, "template", limit)
                              IN  [i \in 1..Len(docs) |-> WithId(docs[i])]])
                     ELSE Http500("get_documents failed")
    /\ lastOp' = "list_templates"
    /\ wrote' = FALSE
    /\ UNCHANGED store
    /\ Pure

\* Mutant: the tool name used as it was given.
ToolKey_AsGiven(t) == t

\* tool.lower()
ToolKey(t) == Lower(t)

HasKey(m, k) == \E i \in 1..Len(m) : m[i][1] = k

\* Mutant: an entry appended for every assignment.
DictSet_Append(m, k, v) == Append(m, <<k, v>>)

\* m[k] = v on an insertion-ordered dict
DictSet(m, k, v) ==
    IF HasKey(m, k)
    THEN [i \in 1..Len(m) |-> IF m[i][1] = k THEN <<k, v>> ELSE m[i]]
    ELSE Append(m, <<k, v>>)

\* for tool in req.tools: steps_map[tool.lower()] = _build_steps(tool.lower(), detected)
RECURSIVE BuildStepsMap(_, _, _)
BuildStepsMap(tools, d, m) ==
    IF tools = <<>> THEN m
    ELSE BuildStepsMap(Tail(tools), d,
                       DictSet(m, ToolKey(Head(tools)),
                               _build_steps(ToolKey(Head(tools)), d)))

\* GuideSchema(source_name=..., detected=..., steps=...)
GuideDoc(r) ==
    LET d == _detect_design(r.source_name)
    IN  [source_name |-> r.source_name,
         detected |-> d,
         steps |-> BuildStepsMap(r.tools, d, <<>>)]

\* Mutant: the failure of the store write raised to the caller.
GuideReturn_Raising(r, doc, ok, id) ==
    IF ok
    THEN Ok([id |-> Some(id), source_name |-> doc.source_name,
             detected |-> doc.detected, steps |-> doc.steps,
             image_url |-> r.image_url])
    ELSE Http500("create_document failed")

\* try: guide_id = create_document(...) except Exception: guide_id = None,
\* and the returned body
GuideReturn(r, doc, ok, id) ==
    Ok([id |-> IF ok THEN Some(id) ELSE None,
        source_name |-> doc.source_name,
        detected |-> doc.detected,
        steps |-> doc.steps,
        image_url |-> r.image_url])

generate_guide ==
    /\ pc = "serving"
    /\ \E r \in GuideRequests, ok \in BOOLEAN :
          LET doc == GuideDoc(r)
          IN  /\ CanWrite(ok)
              /\ req' = r
              /\ wrote' = ok
              /\ store' = IF ok THEN Insert(store, "guide", doc) ELSE store
              /\ resp' = GuideReturn(r, doc, ok, NewId(store))
    /\ lastOp' = "generate_guide"
    /\ Pure

Next ==
    \/ read_root
    \/ hello
    \/ test_database
    \/ create_template
    \/ list_templates
    \/ generate_guide

Spec == Init /\ [][Next]_vars

(***************************************************************************)
(* Properties of the detector (checked under DetectSpec).                  *)
(***************************************************************************)
HasStoryKey(s) ==
    \/ Contains(s, "story") \/ Contains(s, "reel")
    \/ Contains(s, "vertical") \/ Contains(s, "instagram story")

HasSquareKey(s) ==
    Contains(s, "square") \/ Contains(s, "instagram") \/ Contains(s, "post")

HasA4Key(s) ==
    Contains(s, "a4") \/ Contains(s, "flyer") \/ Contains(s, "print")

HasStyleKey(s) ==
    \/ Contains(s, "tech") \/ Contains(s, "futur") \/ Contains(s, "robot")
    \/ Contains(s, "modern") \/ Contains(s, "grad")

\* C1: a name whose lower-cased text contains "story", "reel", "vertical" or
\* "instagram story" is detected as layout "story", whatever square or a4
\* keywords or other text it also contains and whatever its letter case.
C1_StoryFirst ==
    (pc = "detected" /\ HasStoryKey(Lower(name))) => detected.layout = "story"

\* A name in capitals with a story, a square and an a4 keyword.
C1_Witness ==
    /\ pc = "detected"
    /\ name # Lower(name)
    /\ Contains(Lower(name), "reel")
    /\ HasSquareKey(Lower(name))
    /\ HasA4Key(Lower(name))
    /\ detected.layout = "story"

\* C2: the empty string and every name with no keyword of the detector give
\* the all-default spec: layout "poster", palette #111827/#E5E7EB/#FF4D4D,
\* fonts Poppins/Montserrat, background "solid", image position "center".
C2_Defaults ==
    (/\ pc = "detected"
     /\ ~HasStoryKey(Lower(name))
     /\ ~HasSquareKey(Lower(name))
     /\ ~HasA4Key(Lower(name))
     /\ ~HasStyleKey(Lower(name)))
    => /\ detected.layout = "poster"
       /\ detected.palette = <<"#111827", "#E5E7EB", "#FF4D4D">>
       /\ detected.fonts = <<"Poppins", "Montserrat">>
       /\ detected.structure[1].style = "solid"
       /\ detected.structure[2].position = "center"

\* The empty string, detected.
C2_Witness ==
    /\ pc = "detected"
    /\ name = ""
    /\ detected.layout = "poster"
    /\ detected.structure[1].style = "solid"

\* C3: every detected spec has a layout among story, square, poster and a4,
\* one of the two fixed palettes (3 entries), one of the two fixed font pairs
\* (2 entries) and the 5 structure entries background, image, headline,
\* subhead, cta in this order; the image is at "top" exactly for layout
\* "story" and at "center" otherwise.
C3_SpecShape ==
    pc = "detected" =>
        /\ detected.layout \in {"story", "square", "poster", "a4"}
        /\ Len(detected.palette) = 3
        /\ detected.palette \in { <<"#0B0F1A", "#FF7A00", "#FFFFFF">>,
                                  <<"#111827", "#E5E7EB", "#FF4D4D">> }
        /\ Len(detected.fonts) = 2
        /\ detected.fonts \in { <<"Inter", "Manrope">>, <<"Poppins", "Montserrat">> }
        /\ Len(detected.structure) = 5
        /\ [i \in 1..5 |-> detected.structure[i].type]
              = <<"background", "image", "headline", "subhead", "cta">>
        /\ detected.structure[2].position \in {"top", "center"}
        /\ detected.structure[2].position = "top" <=> detected.layout = "story"

\* A story layout with the image at the top.
C3_Witness ==
    /\ pc = "detected"
    /\ detected.layout = "story"
    /\ detected.structure[2].position = "top"
    /\ detected.palette = <<"#0B0F1A", "#FF7A00", "#FFFFFF">>
    /\ detected.fonts = <<"Poppins", "Montserrat">>

\* C10: the layout is "poster" exactly when the lower-cased name contains
\* none of the ten layout keywords; a name containing "poster" contains
\* "post", so it is "story" when it has a story keyword and "square"
\* otherwise, never "poster".
C10_PosterIsSquare ==
    pc = "detected" =>
        /\ detected.layout = "poster"
              <=> ~(\/ HasStoryKey(Lower(name))
                    \/ HasSquareKey(Lower(name))
                    \/ HasA4Key(Lower(name)))
        /\ Contains(Lower(name), "poster") =>
              /\ detected.layout \in {"square", "story"}
              /\ detected.layout = "story" <=> HasStoryKey(Lower(name))

\* The name "Poster", detected as square.
C10_Witness ==
    /\ pc = "detected"
    /\ name = "Poster"
    /\ detected.layout = "square"

(***************************************************************************)
(* Properties of the step builder (checked under StepsSpec).               *)
(***************************************************************************)
KnownTools == {"photoshop", "illustrator", "canva"}

FirstLine(t) ==
    CASE t = "photoshop" -> "Open Photoshop."
      [] t = "illustrator" -> "Open Illustrator."
      [] OTHER -> "Open Canva."

LastLine(t) ==
    CASE t = "photoshop" -> "Save as PSD and export PNG."
      [] t = "illustrator" -> "Save as AI and export PNG."
      [] OTHER -> "Download PNG and save the design as a template."

\* C4: for each of photoshop, illustrator and canva the builder returns 12
\* lines: 3 lines of the tool's prefix, the 7 common lines, 2 lines of the
\* tool's suffix; the 7 common lines are the same for the three tools.
C4_TwelveLines ==
    (pc = "built" /\ tool \in KnownTools) =>
        /\ Len(steps) = 12
        /\ steps[1] = FirstLine(tool)
        /\ \A t \in KnownTools \ {tool} :
              \A i \in 1..3 : steps[i] # _build_steps(t, detected)[i]
        /\ SubSeq(steps, 4, 4) =
              << "Create a new document sized "
                   \o ToString(size_map(detected.layout)[1]) \o "x"
                   \o ToString(size_map(detected.layout)[2]) \o " px." >>
        /\ steps[10] =
              "Export as high-quality PNG (and save the source file as a reusable template)."
        /\ \A t \in KnownTools :
              SubSeq(_build_steps(t, detected), 4, 10) = SubSeq(steps, 4, 10)
        /\ steps[12] = LastLine(tool)
        /\ \A t \in KnownTools \ {tool} :
              \A i \in 11..12 : steps[i] # _build_steps(t, detected)[i]

\* Illustrator steps for an a4 spec.
C4_Witness ==
    /\ pc = "built"
    /\ tool = "illustrator"
    /\ detected.layout = "a4"
    /\ Len(steps) = 12
    /\ steps[1] = "Open Illustrator."
    /\ steps[4] = "Create a new document sized 2480x3508 px."

\* C5: a tool that is not exactly "photoshop" or "illustrator" (the empty
\* string, an unknown name, another letter case) gets, line for line, the
\* steps of "canva".
C5_CanvaFallback ==
    (pc = "built" /\ tool \notin {"photoshop", "illustrator"}) =>
        /\ Len(steps) = 12
        /\ steps = _build_steps("canva", detected)
        /\ steps[1] = "Open Canva."
        /\ steps[12] = "Download PNG and save the design as a template."

\* An unknown tool name, answered with the Canva steps.
C5_Witness ==
    /\ pc = "built"
    /\ tool = "gimp"
    /\ steps[1] = "Open Canva."
    /\ steps = _build_steps("canva", detected)

(***************************************************************************)
(* Properties of the service (checked under Spec).                         *)
(***************************************************************************)
LowerAll(ts) == [i \in 1..Len(ts) |-> Lower(ts[i])]

\* The elements of a sequence in the order of their first occurrence.
RECURSIVE FirstOccurrences(_)
FirstOccurrences(ts) ==
    IF ts = <<>> THEN <<>>
    ELSE LET front == FirstOccurrences(SubSeq(ts, 1, Len(ts) - 1))
             last == ts[Len(ts)]
         IN  IF \E i \in 1..Len(front) : front[i] = last
             THEN front
             ELSE Append(front, last)

\* The steps map with one entry per key, each the builder's steps for it.
StepsOf(keys, d) == [i \in 1..Len(keys) |-> <<keys[i], _build_steps(keys[i], d)>>]

IsPrefix(a, b) == Len(a) <= Len(b) /\ SubSeq(b, 1, Len(a)) = a

\* C6: when the store write of POST /api/guides fails the request still
\* succeeds: id is null, source_name, detected, steps and image_url are what
\* the request returns when the write succeeds, and the store is unchanged.
C6_WriteFailureSwallowed ==
    [][lastOp' = "generate_guide" =>
          /\ resp'.status = 200
          /\ resp'.body.source_name = req'.source_name
          /\ resp'.body.detected = _detect_design(req'.source_name)
          /\ resp'.body.steps =
                StepsOf(FirstOccurrences(LowerAll(req'.tools)), resp'.body.detected)
          /\ resp'.body.image_url = req'.image_url
          /\ wrote' => resp'.body.id = Some(NewId(store))
          /\ ~wrote' => (resp'.body.id = None /\ store' = store)]_vars

\* A guide request whose write failed on a store that works and holds a
\* document.
C6_Witness ==
    /\ lastOp = "generate_guide"
    /\ db
    /\ ~wrote
    /\ Len(store) = 1
    /\ resp.status = 200
    /\ resp.body.id = None
    /\ Len(resp.body.steps) = 3

\* C7 as stated: the step builder lower-cases the tool name, so for every
\* tool t of a request buildSteps(t, spec) = buildSteps(lowercase(t), spec).
C7_BuilderLowerCases ==
    lastOp = "generate_guide" =>
        \A i \in 1..Len(req.tools) :
            _build_steps(req.tools[i], resp.body.detected)
                = _build_steps(Lower(req.tools[i]), resp.body.detected)

\* C7 amended: generate_guide lower-cases each tool name before it calls the
\* step builder: the steps of a tool t of the request are stored under
\* lowercase(t), and under no other key, and are buildSteps(lowercase(t),
\* spec), so "Photoshop" yields the Photoshop prefix and suffix; the builder
\* itself matches exactly, and called with a name that is not exactly
\* "photoshop" or "illustrator" it gives the Canva steps.
C7_HandlerLowerCases ==
    lastOp = "generate_guide" =>
        /\ \A j \in 1..Len(resp.body.steps) :
              \E i \in 1..Len(req.tools) : resp.body.steps[j][1] = Lower(req.tools[i])
        /\ \A i \in 1..Len(req.tools) :
              LET t == req.tools[i]
                  d == resp.body.detected
              IN  /\ \E j \in 1..Len(resp.body.steps) :
                        /\ resp.body.steps[j][1] = Lower(t)
                        /\ resp.body.steps[j][2] = _build_steps(Lower(t), d)
                        /\ resp.body.steps[j][2][1] = FirstLine(Lower(t))
                        /\ resp.body.steps[j][2][12] = LastLine(Lower(t))
                  /\ t \notin {"photoshop", "illustrator"} =>
                        _build_steps(t, d)[1] = "Open Canva."

\* "Photoshop" and "photoshop" requested: one entry, the Photoshop steps.
C7_Witness ==
    /\ lastOp = "generate_guide"
    /\ req.tools = <<"Photoshop", "photoshop">>
    /\ Len(resp.body.steps) = 1
    /\ resp.body.steps[1][1] = "photoshop"
    /\ resp.body.steps[1][2][1] = "Open Photoshop."
    /\ resp.body.steps[1][2][12] = "Save as PSD and export PNG."

\* C8 as stated: the steps map is keyed by the tool names of the request, one
\* entry per name in the order of first occurrence, each entry the builder's
\* steps for that name on the one detected spec.
C8_KeyedByToolName ==
    lastOp = "generate_guide" =>
        /\ resp.body.detected = _detect_design(req.source_name)
        /\ resp.body.steps = StepsOf(FirstOccurrences(req.tools), resp.body.detected)

\* C8 amended: the steps map is keyed by the lower-cased tool names, one entry
\* per distinct lower-cased name in the order of first occurrence (names that
\* differ only in letter case share one entry), each entry the builder's steps
\* for the lower-cased name on the one detected spec; no tools, no entries.
C8_KeyedByLowerCasedName ==
    lastOp = "generate_guide" =>
        /\ resp.body.detected = _detect_design(req.source_name)
        /\ resp.body.steps =
              StepsOf(FirstOccurrences(LowerAll(req.tools)), resp.body.detected)
        /\ req.tools = <<>> => resp.body.steps = <<>>

\* Four tools, two of them the same but for the letter case: three entries in
\* the order of first occurrence.
C8_Witness ==
    /\ lastOp = "generate_guide"
    /\ req.tools = <<"ILLUSTRATOR", "canva", "illustrator", "">>
    /\ Len(resp.body.steps) = 3
    /\ [i \in 1..3 |-> resp.body.steps[i][1]] = <<"illustrator", "canva", "">>
    /\ resp.body.steps[1][2][1] = "Open Illustrator."

\* C9: the store is append-only: no step changes or removes a stored
\* document; a successful POST /api/templates adds one template document, a
\* POST /api/guides whose write succeeds adds one guide document; the GET
\* handlers and failed writes leave the store as it is.
C9_AppendOnly ==
    [][/\ IsPrefix(store, store')
       /\ lastOp' = "create_template" =>
             /\ wrote' <=> resp'.status = 200
             /\ wrote' => /\ Len(store') = Len(store) + 1
                          /\ store'[Len(store')].kind = "template"
                          /\ store'[Len(store')].data = req'
       /\ (lastOp' = "generate_guide" /\ wrote') =>
             /\ Len(store') = Len(store) + 1
             /\ store'[Len(store')].kind = "guide"
             /\ store'[Len(store')].data.source_name = req'.source_name
       /\ (\/ lastOp' \in {"read_root", "hello", "test_database", "list_templates"}
           \/ ~wrote') => store' = store]_vars

\* Templates listed from a store that holds a template and a guide.
C9_Witness ==
    /\ lastOp = "list_templates"
    /\ resp.status = 200
    /\ Len(resp.body.items) = 1
    /\ Len(store) = 2
    /\ store[1].kind = "template"
    /\ store[2].kind = "guide"

====
